---- MODULE Spec2Model ----
(***************************************************************************)
(* A model of the AMQP brokers of @discordjs/brokers:                      *)
(*   BaseAMQPBroker (subscribe / unsubscribe / listen / destroy),          *)
(*   RPCAMQPBroker  (call / emitEvent) and PubSubAMQPBroker.               *)
(* The amqplib channel is the environment: every transport operation the   *)
(* broker awaits is completed (or failed) by a separate step.              *)
(***************************************************************************)
EXTENDS Integers, Sequences, FiniteSets, TLC

\* ------------------------------------------------------------------ bounds
MaxCalls == 2
MaxSubs == 2
MaxEvents == 2
MaxAppSteps == 5

Calls == 1..MaxCalls
Subs == 1..MaxSubs

\* ------------------------------------------------------------------ inputs
CallEvents == {"ping"}
CallData == {"x"}
Values == {"pong", ""}
Groups == {"g"}
Events == {"a", "b"}

\* ------------------------------------------------------------ RPC variables
VARIABLES
    chanOpen,       \* the amqpChannel has not been closed
    callPc,         \* where each invocation of call() stands
    promise,        \* the awaited result of each call
    timeout,        \* the timer of each call (the const `timeout`)
    queue,          \* the reply queue assertQueue('') named for each call
    correlationId,  \* the randomUUID() of each call
    replyConsumer,  \* the consume() each call issued on its reply queue
    published,      \* the request each call published
    issued,         \* how many reply queues / uuids have been generated
    exchange,       \* options.exchange is set
    subscribedEvents, \* the Set subscribedEvents
    listening,      \* the flag listening
    errorListeners, \* handlers listen() registered with amqpChannel.on('error')
    closeListeners, \* handlers listen() registered with amqpChannel.on('close')
    consumers,      \* per queue, the consumers listen() has registered on the channel
    sub,            \* where each invocation of subscribe() stands
    brokerErrors,   \* how many times the broker has emitted 'error'
    unsub,          \* where the latest invocation of unsubscribe() stands
    handlers,       \* the listeners registered on the broker, in registration order
    payloads,       \* the handler payloads emitEvent has built, one per message
    acked,          \* per payload, the amqpChannel.ack(message) calls issued
    outbox,         \* the messages sent with amqpChannel.sendToQueue
    last            \* history: the step taken last

rpcVars == <<callPc, promise, timeout, queue, correlationId, replyConsumer, published, issued>>

subVars == <<exchange, subscribedEvents, listening, errorListeners, closeListeners, consumers, sub>>

appVars == <<brokerErrors, unsub, handlers, payloads, acked, outbox>>

\* ------------------------------------------------------------------- codec
\* options.encode / options.decode: a value to bytes and back.
encode(v) == <<"bytes", v>>

decode(b) == b[2]

\* ---------------------------------------------------------------- messages
NoToken == 0

NullMsg == [isNull |-> TRUE, correlationId |-> NoToken, content |-> <<>>]

Response(token, v) == [isNull |-> FALSE, correlationId |-> token, content |-> encode(v)]

Messages == {NullMsg} \cup {Response(t, v) : t \in 0..MaxCalls, v \in Values}

NoRequest == [sent |-> FALSE]

Request(event, data, q, cid) ==
    [sent |-> TRUE, routingKey |-> event, content |-> encode(data),
     replyTo |-> q, correlationId |-> cid]

\* ---------------------------------------------------------------- promises
Pending == [state |-> "pending"]

NoPromise == [state |-> "none"]

TimedOut == "timedOut"

TransportError == "transportError"

Settled(p) == p.state \in {"resolved", "rejected"}

\* resolve(v) / reject(e) of a promise: the first one wins, later ones do nothing.
SettleAlways(p, how, v) == [state |-> how, value |-> v]

Settle(p, how, v) == IF p.state = "pending" THEN [state |-> how, value |-> v] ELSE p

\* clearTimeout(timeout): cancels a timer that has not fired.
ClearTimeoutNever(t) == t

ClearTimeout(t) == IF t = "armed" THEN "cleared" ELSE t

\* message?.properties.correlationId === correlationId
MatchesAlways(m, cid) == ~m.isNull

Matches(m, cid) == ~m.isNull /\ m.correlationId = cid

\* ------------------------------------------------------------ destinations
\* const queueName = `${group}_${event}`
QueueName(group, event) == group \o "_" \o event

QueueNames == {QueueName(g, e) : g \in Groups, e \in Events}

\* The arrays of events subscribe() is called with.
EventArrays == UNION {[1..n -> Events] : n \in 0..MaxEvents}

IdleSub == [pc |-> "idle", group |-> "", events |-> <<>>, ev |-> <<>>, lis |-> "none", consume |-> <<>>]

IdleUnsub == [pc |-> "idle", group |-> "", events |-> <<>>]

\* -------------------------------------------------------------------- Init
Init ==
    /\ chanOpen = TRUE
    /\ callPc = [c \in Calls |-> "idle"]
    /\ promise = [c \in Calls |-> NoPromise]
    /\ timeout = [c \in Calls |-> "none"]
    /\ queue = [c \in Calls |-> 0]
    /\ correlationId = [c \in Calls |-> NoToken]
    /\ replyConsumer = [c \in Calls |-> "none"]
    /\ published = [c \in Calls |-> NoRequest]
    /\ issued = 0
    /\ exchange \in BOOLEAN
    /\ subscribedEvents = {}
    /\ listening = FALSE
    /\ errorListeners = 0
    /\ closeListeners = 0
    /\ consumers = [q \in QueueNames |-> 0]
    /\ sub = [s \in Subs |-> IdleSub]
    /\ brokerErrors = 0
    /\ unsub = IdleUnsub
    /\ handlers = [e \in Events |-> <<>>]
    /\ payloads = <<>>
    /\ acked = <<>>
    /\ outbox = <<>>
    /\ last = [op |-> "init", c |-> 0, m |-> NullMsg]

\* ---------------------------------------------------------------- call()
\* call(event, data) is invoked: it awaits assertQueue('', {exclusive: true}).
Call(c) ==
    /\ callPc[c] = "idle"
    /\ \A d \in Calls : d < c => callPc[d] # "idle"
    /\ callPc' = [callPc EXCEPT ![c] = "assertQueue"]
    /\ promise' = [promise EXCEPT ![c] = Pending]
    /\ last' = [op |-> "call", c |-> c, m |-> NullMsg]
    /\ UNCHANGED <<chanOpen, timeout, queue, correlationId, replyConsumer, published, issued>>
    /\ UNCHANGED subVars
    /\ UNCHANGED appVars

\* The executor with a correlation id that is not fresh: every call gets the same one.
ExecutorSameToken(c, event, data, pubOk) ==
    LET q == issued + 1
        cid == 1
    IN  /\ issued' = issued + 1
        /\ queue' = [queue EXCEPT ![c] = q]
        /\ correlationId' = [correlationId EXCEPT ![c] = cid]
        /\ timeout' = [timeout EXCEPT ![c] = "armed"]
        /\ replyConsumer' = [replyConsumer EXCEPT ![c] = "pending"]
        /\ IF pubOk
           THEN /\ published' = [published EXCEPT ![c] = Request(event, data, q, cid)]
                /\ UNCHANGED promise
           ELSE /\ promise' = [promise EXCEPT ![c] = Settle(promise[c], "rejected", TransportError)]
                /\ UNCHANGED published

\* The promise executor: arms the timer, issues consume, publishes the request.
\* publish (or encode) may throw, which rejects the promise being constructed.
\* assertQueue('') names a fresh queue and randomUUID() a fresh token.
Executor(c, event, data, pubOk) ==
    LET q == issued + 1
        cid == issued + 1
    IN  /\ issued' = issued + 1
        /\ queue' = [queue EXCEPT ![c] = q]
        /\ correlationId' = [correlationId EXCEPT ![c] = cid]
        /\ timeout' = [timeout EXCEPT ![c] = "armed"]
        /\ replyConsumer' = [replyConsumer EXCEPT ![c] = "pending"]
        /\ IF pubOk
           THEN /\ published' = [published EXCEPT ![c] = Request(event, data, q, cid)]
                /\ UNCHANGED promise
           ELSE /\ promise' = [promise EXCEPT ![c] = Settle(promise[c], "rejected", TransportError)]
                /\ UNCHANGED published

\* assertQueue resolves: the rest of call() runs to its return.
AssertQueueResolves(c) ==
    /\ callPc[c] = "assertQueue"
    /\ chanOpen
    /\ \E event \in CallEvents, data \in CallData, pubOk \in BOOLEAN :
          Executor(c, event, data, pubOk)
    /\ callPc' = [callPc EXCEPT ![c] = "returned"]
    /\ last' = [op |-> "assertQueueOk", c |-> c, m |-> NullMsg]
    /\ UNCHANGED chanOpen
    /\ UNCHANGED subVars
    /\ UNCHANGED appVars

\* assertQueue rejects: the await throws and call() rejects with that error.
AssertQueueRejects(c) ==
    /\ callPc[c] = "assertQueue"
    /\ callPc' = [callPc EXCEPT ![c] = "threw"]
    /\ promise' = [promise EXCEPT ![c] = Settle(promise[c], "rejected", TransportError)]
    /\ last' = [op |-> "assertQueueFail", c |-> c, m |-> NullMsg]
    /\ UNCHANGED <<chanOpen, timeout, queue, correlationId, replyConsumer, published, issued>>
    /\ UNCHANGED subVars
    /\ UNCHANGED appVars

\* The channel answers the consume() of a call: the consumer is registered, or not.
ConsumeReply(c) ==
    /\ replyConsumer[c] = "pending"
    /\ \E ok \in BOOLEAN :
          /\ ok => chanOpen
          /\ replyConsumer' = [replyConsumer EXCEPT ![c] = IF ok THEN "active" ELSE "failed"]
    /\ last' = [op |-> "consumeReply", c |-> c, m |-> NullMsg]
    /\ UNCHANGED <<chanOpen, callPc, promise, timeout, queue, correlationId, published, issued>>
    /\ UNCHANGED subVars
    /\ UNCHANGED appVars

\* What the consumer callback of a call does with message m, in the order it does it:
\* on a match resolve(decode(content)), then clearTimeout(timeout); else nothing.
HandlerStepsNoClear(m, cid) == IF Matches(m, cid) THEN <<"resolve">> ELSE <<>>

HandlerSteps(m, cid) == IF Matches(m, cid) THEN <<"resolve", "clearTimeout">> ELSE <<>>

\* One step of the callback on the promise and the timer of its call.
HandlerStep(st, step, m) ==
    IF step = "resolve"
    THEN [st EXCEPT !.promise = Settle(@, "resolved", decode(m.content))]
    ELSE [st EXCEPT !.timeout = ClearTimeout(@)]

RECURSIVE RunHandler(_, _, _)
RunHandler(st, steps, m) ==
    IF steps = <<>> THEN st
    ELSE RunHandler(HandlerStep(st, Head(steps), m), Tail(steps), m)

\* The consumer callback of call c.
OnMessage(c, m) ==
    LET st == RunHandler([promise |-> promise[c], timeout |-> timeout[c]],
                         HandlerSteps(m, correlationId[c]), m)
    IN  /\ promise' = [promise EXCEPT ![c] = st.promise]
        /\ timeout' = [timeout EXCEPT ![c] = st.timeout]

\* Message m carries the token of call c.
Tagged(m, c) == ~m.isNull /\ correlationId[c] # NoToken /\ m.correlationId = correlationId[c]

\* A channel that delivers on the reply queue of call c although it has closed.
ConsumingClosed(c) == replyConsumer[c] = "active"

\* The consumer of call c is registered on a channel that is open.
Consuming(c) == chanOpen /\ replyConsumer[c] = "active"

\* The channel delivers message m on the reply queue of call c.
\* A message carrying c's own token exists only once c's request is published.
Deliver(c, m) ==
    /\ Consuming(c)
    /\ Tagged(m, c) => published[c].sent
    /\ OnMessage(c, m)
    /\ last' = [op |-> "deliver", c |-> c, m |-> m, did |-> HandlerSteps(m, correlationId[c])]
    /\ UNCHANGED <<chanOpen, callPc, queue, correlationId, replyConsumer, published, issued>>
    /\ UNCHANGED subVars
    /\ UNCHANGED appVars

\* The timer of call c fires: () => reject(timedOut).
TimerFires(c) ==
    /\ timeout[c] = "armed"
    /\ timeout' = [timeout EXCEPT ![c] = "fired"]
    /\ promise' = [promise EXCEPT ![c] = Settle(promise[c], "rejected", TimedOut)]
    /\ last' = [op |-> "timer", c |-> c, m |-> NullMsg]
    /\ UNCHANGED <<chanOpen, callPc, queue, correlationId, replyConsumer, published, issued>>
    /\ UNCHANGED subVars
    /\ UNCHANGED appVars

\* ------------------------------------------------------------- subscribe()
AllOf(seq, v) == \A i \in 1..Len(seq) : seq[i] = v

\* events.map(async (event) => { subscribedEvents.add(event); await assertQueue(...) ... }):
\* every callback runs to its first await before subscribe() goes on.
StartMap(s, group, events) ==
    /\ subscribedEvents' = subscribedEvents \cup {events[i] : i \in 1..Len(events)}
    /\ sub' = [sub EXCEPT ![s] = [pc |-> "provisioning", group |-> group, events |-> events,
                                  ev |-> [i \in 1..Len(events) |-> "assertQueue"],
                                  lis |-> "none", consume |-> <<>>]]

\* subscribe(group, events) is invoked.
Subscribe(s, group, events) ==
    /\ sub[s].pc = "idle"
    /\ \A r \in Subs : r < s => sub[r].pc # "idle"
    /\ IF exchange
       THEN /\ sub' = [sub EXCEPT ![s] = [IdleSub EXCEPT !.pc = "assertExchange",
                                                        !.group = group, !.events = events]]
            /\ UNCHANGED subscribedEvents
       ELSE StartMap(s, group, events)
    /\ last' = [op |-> "subscribe", c |-> s, m |-> NullMsg]
    /\ UNCHANGED <<exchange, listening, errorListeners, closeListeners, consumers>>
    /\ UNCHANGED <<chanOpen, rpcVars>>
    /\ UNCHANGED appVars

\* The channel answers assertExchange.
AssertExchangeReply(s, ok) ==
    /\ sub[s].pc = "assertExchange"
    /\ ok => chanOpen
    /\ IF ok
       THEN StartMap(s, sub[s].group, sub[s].events)
       ELSE /\ sub' = [sub EXCEPT ![s].pc = "failed"]
            /\ UNCHANGED subscribedEvents
    /\ last' = [op |-> "assertExchangeReply", c |-> s, m |-> NullMsg]
    /\ UNCHANGED <<exchange, listening, errorListeners, closeListeners, consumers>>
    /\ UNCHANGED <<chanOpen, rpcVars>>
    /\ UNCHANGED appVars

\* A callback of the map throws: Promise.all rejects and subscribe() with it,
\* unless it has failed already; the other callbacks go on.
Rejected(pc) == IF pc = "provisioning" THEN "failed" ELSE pc

\* The channel answers the assertQueue of the i-th event.
SubAssertQueueReply(s, i, ok) ==
    /\ i \in 1..Len(sub[s].ev)
    /\ sub[s].ev[i] = "assertQueue"
    /\ ok => chanOpen
    /\ sub' = IF ok
              THEN [sub EXCEPT ![s].ev[i] = IF exchange THEN "bindQueue" ELSE "done"]
              ELSE [sub EXCEPT ![s].ev[i] = "failed", ![s].pc = Rejected(sub[s].pc)]
    /\ last' = [op |-> "assertQueueReply", c |-> s, m |-> NullMsg]
    /\ UNCHANGED <<exchange, subscribedEvents, listening, errorListeners, closeListeners, consumers>>
    /\ UNCHANGED <<chanOpen, rpcVars>>
    /\ UNCHANGED appVars

\* The channel answers the bindQueue of the i-th event.
BindQueueReply(s, i, ok) ==
    /\ i \in 1..Len(sub[s].ev)
    /\ sub[s].ev[i] = "bindQueue"
    /\ ok => chanOpen
    /\ sub' = IF ok
              THEN [sub EXCEPT ![s].ev[i] = "done"]
              ELSE [sub EXCEPT ![s].ev[i] = "failed", ![s].pc = Rejected(sub[s].pc)]
    /\ last' = [op |-> "bindQueueReply", c |-> s, m |-> NullMsg]
    /\ UNCHANGED <<exchange, subscribedEvents, listening, errorListeners, closeListeners, consumers>>
    /\ UNCHANGED <<chanOpen, rpcVars>>
    /\ UNCHANGED appVars

\* listen(group, events): to its await of the consume() calls.
ListenSkips(isListening) == isListening

Listen(s) ==
    IF ListenSkips(listening)
    THEN /\ sub' = [sub EXCEPT ![s].pc = "done", ![s].lis = "skipped"]
         /\ UNCHANGED <<listening, errorListeners, closeListeners>>
    ELSE /\ listening' = TRUE
         /\ errorListeners' = errorListeners + 1
         /\ closeListeners' = closeListeners + 1
         /\ sub' = [sub EXCEPT ![s].pc = "done", ![s].lis = "started",
                               ![s].consume = [i \in 1..Len(sub[s].events) |-> "pending"]]

\* Promise.all resolves: subscribe() calls listen() and returns.
ProvisioningDone(s) ==
    /\ sub[s].pc = "provisioning"
    /\ AllOf(sub[s].ev, "done")
    /\ Listen(s)
    /\ last' = [op |-> "listen", c |-> s, m |-> NullMsg]
    /\ UNCHANGED <<exchange, subscribedEvents, consumers>>
    /\ UNCHANGED <<chanOpen, rpcVars>>
    /\ UNCHANGED appVars

\* The channel answers the consume() listen() issued for the i-th event.
ListenConsumeReply(s, i, ok) ==
    /\ i \in 1..Len(sub[s].consume)
    /\ sub[s].consume[i] = "pending"
    /\ ok => chanOpen
    /\ LET q == QueueName(sub[s].group, sub[s].events[i])
       IN  IF ok
           THEN /\ consumers' = [consumers EXCEPT ![q] = @ + 1]
                /\ sub' = [sub EXCEPT ![s].consume[i] = "ok"]
           ELSE /\ sub' = [sub EXCEPT ![s].consume[i] = "failed"]
                /\ UNCHANGED consumers
    /\ last' = [op |-> "listenConsumeReply", c |-> s, m |-> NullMsg]
    /\ UNCHANGED <<exchange, subscribedEvents, listening, errorListeners, closeListeners>>
    /\ UNCHANGED <<chanOpen, rpcVars>>
    /\ UNCHANGED appVars

\* --------------------------------------------------------------- destroy()
\* The channel emits 'close': its consumers are gone and every 'close' handler
\* listen() registered runs: listening = false.
OnClose ==
    /\ chanOpen' = FALSE
    /\ listening' = IF closeListeners > 0 THEN FALSE ELSE listening
    /\ consumers' = [q \in QueueNames |-> 0]

\* destroy(): amqpChannel.close().
Destroy ==
    /\ chanOpen
    /\ OnClose
    /\ last' = [op |-> "destroy", c |-> 0, m |-> NullMsg]
    /\ UNCHANGED <<exchange, subscribedEvents, errorListeners, closeListeners, sub>>
    /\ UNCHANGED rpcVars
    /\ UNCHANGED appVars

\* The 'error' handlers on the channel: each one listen() registered runs
\* this.emit('error', error) once.
OnError(n) == n + errorListeners

\* The channel emits 'error' and, as a channel does after an error, 'close'.
ChannelError ==
    /\ chanOpen
    /\ brokerErrors' = OnError(brokerErrors)
    /\ OnClose
    /\ last' = [op |-> "channelError", c |-> 0, m |-> NullMsg]
    /\ UNCHANGED <<exchange, subscribedEvents, errorListeners, closeListeners, sub>>
    /\ UNCHANGED <<unsub, handlers, payloads, acked, outbox>>
    /\ UNCHANGED rpcVars

\* ------------------------------------------------------------ unsubscribe()
\* An unsubscribe that clears the whole set.
DeleteAll(set, events) == {}

\* events.map(async (event) => { subscribedEvents.delete(event); ... }).
DeleteEvents(set, events) == set \ {events[i] : i \in 1..Len(events)}

\* unsubscribe(group, events) is invoked: every callback of the map runs to its end,
\* or to its await of unbindQueue when an exchange is set.
Unsubscribe(group, events) ==
    /\ unsub.pc # "unbindQueue"
    /\ subscribedEvents' = DeleteEvents(subscribedEvents, events)
    /\ unsub' = [pc |-> IF exchange /\ events # <<>> THEN "unbindQueue" ELSE "done",
                 group |-> group, events |-> events]
    /\ last' = [op |-> "unsubscribe", c |-> 0, m |-> NullMsg]
    /\ UNCHANGED <<exchange, listening, errorListeners, closeListeners, consumers, sub>>
    /\ UNCHANGED <<brokerErrors, handlers, payloads, acked, outbox>>
    /\ UNCHANGED <<chanOpen, rpcVars>>

\* The channel answers the unbindQueue calls: Promise.all resolves, or rejects.
UnbindQueueReplies(ok) ==
    /\ unsub.pc = "unbindQueue"
    /\ ok => chanOpen
    /\ unsub' = [unsub EXCEPT !.pc = IF ok THEN "done" ELSE "failed"]
    /\ last' = [op |-> "unbindQueueReplies", c |-> 0, m |-> NullMsg]
    /\ UNCHANGED subVars
    /\ UNCHANGED <<brokerErrors, handlers, payloads, acked, outbox>>
    /\ UNCHANGED <<chanOpen, rpcVars>>

\* -------------------------------------------------------------- emitEvent()
\* What a listener does when it is invoked.
ListenerKinds == {"returns", "throws"}

\* The requests other brokers publish to the queues of this one.
ReplyRoutes == {<<1, 2>>, <<2, 1>>}

Inbound(event) == {Request(event, d, r[1], r[2]) : d \in CallData, r \in ReplyRoutes}

RECURSIVE SumSeq(_)
SumSeq(seq) == IF seq = <<>> THEN 0 ELSE Head(seq) + SumSeq(Tail(seq))

RECURSIVE SumLen(_, _)
SumLen(f, S) ==
    IF S = {} THEN 0
    ELSE LET e == CHOOSE x \in S : TRUE IN Len(f[e]) + SumLen(f, S \ {e})

\* The steps the application and the channel have taken on the handler side.
AppSteps == SumLen(handlers, Events) + Len(payloads) + SumSeq(acked) + Len(outbox)

\* broker.on(event, listener).
On(event, kind) ==
    /\ AppSteps < MaxAppSteps
    /\ handlers' = [handlers EXCEPT ![event] = Append(@, kind)]
    /\ last' = [op |-> "on", c |-> 0, m |-> NullMsg]
    /\ UNCHANGED subVars
    /\ UNCHANGED <<brokerErrors, unsub, payloads, acked, outbox>>
    /\ UNCHANGED <<chanOpen, rpcVars>>

\* this.emit(event, payload): the listeners are called in registration order, and
\* a listener that throws ends the loop. The number of listeners called.
RECURSIVE Notified(_)
Notified(ls) ==
    IF ls = <<>> THEN 0
    ELSE IF Head(ls) = "throws" THEN 1 ELSE 1 + Notified(Tail(ls))

\* emit() threw: the exception leaves emitEvent and the consume callback.
Threw(ls) == \E i \in 1..Len(ls) : ls[i] = "throws"

\* emitEvent(event, message): builds the payload and emits it.
emitEvent(event, message) ==
    /\ payloads' = Append(payloads, [event |-> event, message |-> message,
                                     data |-> decode(message.content),
                                     registered |-> Len(handlers[event]),
                                     notified |-> Notified(handlers[event]),
                                     threw |-> Threw(handlers[event])])
    /\ acked' = Append(acked, 0)

\* The channel has a consumer listen() registered on queue q.
CanDispatch(q) == chanOpen /\ consumers[q] >= 1

\* The channel calls the consume callback of a queue with a message, or with null.
Dispatch(group, event, message) ==
    /\ CanDispatch(QueueName(group, event))
    /\ IF message = NullMsg
       THEN UNCHANGED <<payloads, acked>>
       ELSE /\ AppSteps < MaxAppSteps
            /\ emitEvent(event, message)
    /\ last' = [op |-> "dispatch", c |-> 0, m |-> NullMsg]
    /\ UNCHANGED subVars
    /\ UNCHANGED <<brokerErrors, unsub, handlers, outbox>>
    /\ UNCHANGED <<chanOpen, rpcVars>>

\* A listener holds payload p.
Held(p) == p \in 1..Len(payloads) /\ payloads[p].notified >= 1

\* payload.ack(): amqpChannel.ack(message).
AckCalls(n) == n + 1

Ack(p) ==
    /\ Held(p)
    /\ chanOpen
    /\ AppSteps < MaxAppSteps
    /\ acked' = [acked EXCEPT ![p] = AckCalls(@)]
    /\ last' = [op |-> "ack", c |-> p, m |-> NullMsg]
    /\ UNCHANGED subVars
    /\ UNCHANGED <<brokerErrors, unsub, handlers, payloads, outbox>>
    /\ UNCHANGED <<chanOpen, rpcVars>>

\* A reply that goes where the latest request asks, not the request of the payload.
SendToQueueLatest(ps, p, data) ==
    [to |-> ps[Len(ps)].message.replyTo,
     correlationId |-> ps[Len(ps)].message.correlationId,
     content |-> encode(data)]

\* amqpChannel.sendToQueue(message.properties.replyTo, encode(data),
\*                         {correlationId: message.properties.correlationId}).
SendToQueue(ps, p, data) ==
    [to |-> ps[p].message.replyTo,
     correlationId |-> ps[p].message.correlationId,
     content |-> encode(data)]

\* payload.reply(data) of the RPC broker.
Reply(p, data) ==
    /\ Held(p)
    /\ chanOpen
    /\ AppSteps < MaxAppSteps
    /\ outbox' = Append(outbox, SendToQueue(payloads, p, data))
    /\ last' = [op |-> "reply", c |-> p, m |-> NullMsg]
    /\ UNCHANGED subVars
    /\ UNCHANGED <<brokerErrors, unsub, handlers, payloads, acked>>
    /\ UNCHANGED <<chanOpen, rpcVars>>

vars == <<chanOpen, rpcVars, subVars, appVars, last>>

\* ----------------------------------------------------------- specifications
RPCNext ==
    \/ \E c \in Calls : Call(c)
    \/ \E c \in Calls : AssertQueueResolves(c)
    \/ \E c \in Calls : AssertQueueRejects(c)
    \/ \E c \in Calls : ConsumeReply(c)
    \/ \E c \in Calls, m \in Messages : Deliver(c, m)
    \/ \E c \in Calls : TimerFires(c)
    \/ Destroy

SubNext ==
    \/ \E s \in Subs, g \in Groups, evs \in EventArrays : Subscribe(s, g, evs)
    \/ \E s \in Subs, ok \in BOOLEAN : AssertExchangeReply(s, ok)
    \/ \E s \in Subs, i \in 1..MaxEvents, ok \in BOOLEAN : SubAssertQueueReply(s, i, ok)
    \/ \E s \in Subs, i \in 1..MaxEvents, ok \in BOOLEAN : BindQueueReply(s, i, ok)
    \/ \E s \in Subs : ProvisioningDone(s)
    \/ \E s \in Subs, i \in 1..MaxEvents, ok \in BOOLEAN : ListenConsumeReply(s, i, ok)
    \/ Destroy
    \/ ChannelError

\* The application side of one subscriber: its listeners and the payloads they get.
AppNext ==
    \/ \E e \in Events, k \in ListenerKinds : On(e, k)
    \/ \E g \in Groups, e \in Events : \E m \in Inbound(e) \cup {NullMsg} : Dispatch(g, e, m)
    \/ \E p \in 1..MaxAppSteps : Ack(p)
    \/ \E p \in 1..MaxAppSteps, d \in Values : Reply(p, d)

UnsubNext ==
    \/ \E g \in Groups, evs \in EventArrays : Unsubscribe(g, evs)
    \/ \E ok \in BOOLEAN : UnbindQueueReplies(ok)

\* subscribe() invoked once, with one event or with any array of events.
OneSubOneEvent ==
    \/ \E g \in Groups, e \in Events : Subscribe(1, g, <<e>>)
    \/ \E ok \in BOOLEAN : AssertExchangeReply(1, ok)
    \/ \E ok \in BOOLEAN : SubAssertQueueReply(1, 1, ok)
    \/ \E ok \in BOOLEAN : BindQueueReply(1, 1, ok)
    \/ ProvisioningDone(1)
    \/ \E ok \in BOOLEAN : ListenConsumeReply(1, 1, ok)

OneSub ==
    \/ \E g \in Groups, evs \in EventArrays : Subscribe(1, g, evs)
    \/ \E ok \in BOOLEAN : AssertExchangeReply(1, ok)
    \/ \E i \in 1..MaxEvents, ok \in BOOLEAN : SubAssertQueueReply(1, i, ok)
    \/ \E i \in 1..MaxEvents, ok \in BOOLEAN : BindQueueReply(1, i, ok)
    \/ ProvisioningDone(1)
    \/ \E i \in 1..MaxEvents, ok \in BOOLEAN : ListenConsumeReply(1, i, ok)

\* call() invoked once.
OneCall ==
    \/ Call(1)
    \/ AssertQueueResolves(1)
    \/ AssertQueueRejects(1)
    \/ ConsumeReply(1)
    \/ \E m \in Messages : Deliver(1, m)
    \/ TimerFires(1)

DispatchNext == OneSubOneEvent \/ AppNext \/ Destroy

UnsubscribeNext == OneSub \/ UnsubNext \/ Destroy

DestroyNext == OneCall \/ OneSubOneEvent \/ Destroy

Next == RPCNext \/ SubNext \/ AppNext \/ UnsubNext

\* The whole broker.
Spec == Init /\ [][Next]_vars

\* The RPC caller alone: one broker on which only call() and destroy() are used.
RPCSpec == Init /\ [][RPCNext]_vars

\* The subscriber alone: one broker on which only subscribe() and destroy() are used.
SubSpec == Init /\ [][SubNext]_vars

\* One subscriber whose listeners ack and reply to the messages dispatched to them.
DispatchSpec == Init /\ [][DispatchNext]_vars

\* One subscriber that also unsubscribes.
UnsubscribeSpec == Init /\ [][UnsubscribeNext]_vars

\* One broker that calls once, subscribes once and is destroyed.
DestroySpec == Init /\ [][DestroyNext]_vars

\* The RPC caller under the scheduling the runtime gives: a timer that is armed and
\* not cleared fires, and a channel that has closed rejects the operations it still
\* owes an answer. An open channel may never answer.
RPCFairSpec ==
    /\ RPCSpec
    /\ \A c \in Calls : WF_vars(TimerFires(c))
    /\ \A c \in Calls : WF_vars(~chanOpen /\ AssertQueueRejects(c))

\* ------------------------------------------------------------------ claims
RejectedWith(e) == [state |-> "rejected", value |-> e]

ResolvedWith(v) == [state |-> "resolved", value |-> v]

\* C1: the awaited result of a call is settled at most once: once it is resolved or
\* rejected, no later response and no timer firing changes it.
C1_SettledAtMostOnce ==
    [][\A c \in Calls : Settled(promise[c]) => promise'[c] = promise[c]]_vars

\* A second response with c's token and another payload was delivered after c resolved.
C1_Witness ==
    \E c \in Calls :
        /\ last.op = "deliver" /\ last.c = c /\ Tagged(last.m, c)
        /\ promise[c].state = "resolved"
        /\ promise[c].value # decode(last.m.content)

\* C2: every call that has been invoked eventually settles, whatever the transport does.
C2_EveryCallSettles ==
    \A c \in Calls : (promise[c].state = "pending") ~> Settled(promise[c])

\* The step is the delivery of message m on the reply queue of call c. (Deliver
\* records its call and message in last, so these are the only candidates.)
Delivery(c, m) == last'.op = "deliver" /\ last'.c = c /\ last'.m = m /\ Deliver(c, m)

\* C3: a response with c's token delivered after c's timer fired is discarded: c stays
\* rejected with the timeout error and nothing else changes.
C3_LateResponseDiscarded ==
    [][\A c \in Calls :
          (timeout[c] = "fired" /\ Tagged(last'.m, c) /\ Delivery(c, last'.m))
              => /\ promise[c] = RejectedWith(TimedOut)
                 /\ promise' = promise
                 /\ timeout' = timeout
                 /\ UNCHANGED <<chanOpen, callPc, queue, correlationId, replyConsumer, published>>]_vars

\* A response with c's token has just been delivered to a call that had timed out.
C3_Witness ==
    \E c \in Calls :
        /\ last.op = "deliver" /\ last.c = c /\ Tagged(last.m, c)
        /\ timeout[c] = "fired"
        /\ promise[c] = RejectedWith(TimedOut)

\* C4: a message on c's reply queue that does not carry c's token (a null message
\* included) changes no call: no promise, no timer, nothing else.
C4_ForeignMessageIgnored ==
    [][\A c \in Calls :
          (last'.op = "deliver" /\ ~Tagged(last'.m, c) /\ Delivery(c, last'.m))
              => /\ promise' = promise
                 /\ timeout' = timeout
                 /\ UNCHANGED <<chanOpen, callPc, queue, correlationId, replyConsumer, published>>]_vars

\* A message with another pending call's token has just been delivered to a pending call.
C4_Witness ==
    \E c \in Calls, d \in Calls :
        /\ c # d
        /\ last.op = "deliver" /\ last.c = c /\ Tagged(last.m, d)
        /\ promise[c] = Pending /\ timeout[c] = "armed"
        /\ promise[d] = Pending /\ timeout[d] = "armed"

\* C5: a response tagged with the token of call d, wherever it is delivered, changes
\* neither the result nor the timer of any other call, and on d's own reply queue it
\* resolves a pending d with the payload that was encoded into it.
C5_NoCrossDelivery ==
    [][\A c \in Calls, d \in Calls, v \in Values :
          (/\ last'.op = "deliver"
           /\ correlationId[d] # NoToken
           /\ last'.m = Response(correlationId[d], v)
           /\ Delivery(c, last'.m))
              => /\ \A o \in Calls \ {d} : promise'[o] = promise[o] /\ timeout'[o] = timeout[o]
                 /\ (c = d /\ promise[d] = Pending)
                       => promise'[d] = ResolvedWith(v) /\ timeout'[d] = "cleared"]_vars

\* Two calls were in flight with live consumers; a response resolved the one and the
\* other is still pending with its timer armed.
C5_Witness ==
    \E c \in Calls, d \in Calls :
        /\ c # d
        /\ last.op = "deliver" /\ last.c = d /\ Tagged(last.m, d)
        /\ promise[d] = ResolvedWith(decode(last.m.content))
        /\ timeout[d] = "cleared"
        /\ promise[c] = Pending /\ timeout[c] = "armed" /\ replyConsumer[c] = "active"
        /\ published[c].sent

\* No transport operation of the subscriber has failed and none is unanswered.
StartUpRan ==
    /\ chanOpen
    /\ \A s \in Subs : \A i \in 1..Len(sub[s].consume) : sub[s].consume[i] = "ok"

\* C6: once a subscribe() has completed and the consumption start-up has run, each of
\* its events has a consumer on its queue.
C6_EverySubscribedEventConsumed ==
    \A s \in Subs :
        (sub[s].pc = "done" /\ StartUpRan)
            => \A i \in 1..Len(sub[s].events) :
                  consumers[QueueName(sub[s].group, sub[s].events[i])] >= 1

\* C7: no queue ever has more than one consumer of this broker.
C7_AtMostOneConsumer ==
    \A q \in QueueNames : consumers[q] <= 1

\* The assertQueue calls for destination q that are in progress.
Provisioning(q) ==
    {<<s, i>> \in Subs \X (1..MaxEvents) :
        /\ i <= Len(sub[s].ev)
        /\ sub[s].ev[i] = "assertQueue"
        /\ QueueName(sub[s].group, sub[s].events[i]) = q}

\* C8: the assertQueue of one destination name is never in progress twice at a time.
C8_NoOverlappingProvisioning ==
    \A q \in QueueNames : Cardinality(Provisioning(q)) <= 1

\* The (subscribe, index) pairs that name event e.
Naming(e) ==
    {<<s, i>> \in Subs \X (1..MaxEvents) : i <= Len(sub[s].events) /\ sub[s].events[i] = e}

\* C9: when the provisioning of an event fails, the subscribe() fails and the event,
\* which no other subscribe names, is not in the subscribed set.
C9_FailedEventNotSubscribed ==
    \A s \in Subs : \A i \in 1..Len(sub[s].ev) :
        (sub[s].ev[i] = "failed" /\ Naming(sub[s].events[i]) = {<<s, i>>})
            => sub[s].pc = "failed" /\ sub[s].events[i] \notin subscribedEvents

\* The transport failed call c while provisioning its reply queue or publishing.
TransportFailed(c) ==
    \/ callPc[c] = "threw"
    \/ callPc[c] = "returned" /\ ~published[c].sent

\* C10: a call the transport failed is rejected with the transport's error and has no
\* timer left armed.
C10_TransportFailureCancelsTimer ==
    \A c \in Calls :
        TransportFailed(c)
            => promise[c] = RejectedWith(TransportError) /\ timeout[c] \in {"none", "cleared"}

\* C11: a call settled by a matching response or by its timeout has no timer armed:
\* the match cleared it, the timeout was its firing.
C11_NoTimerAfterSettle ==
    \A c \in Calls :
        (promise[c].state = "resolved" \/ promise[c] = RejectedWith(TimedOut))
            => timeout[c] \in {"cleared", "fired"}

\* One call was resolved and its timer cleared, another timed out and its timer is spent.
C11_Witness ==
    \E c \in Calls, d \in Calls :
        /\ promise[c].state = "resolved" /\ timeout[c] = "cleared"
        /\ promise[d] = RejectedWith(TimedOut) /\ timeout[d] = "fired"

\* C17: while the channel is open, a settled call has no consumer registered on its
\* reply queue, so the consumers never outnumber the unsettled calls.
C17_NoListenerAfterSettle ==
    chanOpen =>
        /\ \A c \in Calls : Settled(promise[c]) => replyConsumer[c] # "active"
        /\ Cardinality({c \in Calls : replyConsumer[c] = "active"})
              <= Cardinality({c \in Calls : promise[c] = Pending})

\* C18: at the step that publishes the request of a call, its timer is armed and the
\* consumer on its reply queue is registered.
C18_PublishAfterListenerRegistered ==
    [][\A c \in Calls :
          (~published[c].sent /\ published'[c].sent)
              => timeout'[c] = "armed" /\ replyConsumer'[c] = "active"]_vars

\* C19 as claimed: on a match the timer is cancelled before the result is resolved, and
\* no call is resolved with its timer armed.
C19_CancelBeforeResolve ==
    /\ (last.op = "deliver" /\ Tagged(last.m, last.c))
          => last.did = <<"clearTimeout", "resolve">>
    /\ \A c \in Calls : promise[c].state = "resolved" => timeout[c] # "armed"

\* C19 as amended: on a match the result is resolved and then the timer is cancelled,
\* both in the one step of the callback, so a resolved call has its timer cleared.
C19_ResolveThenCancelAtomically ==
    /\ (last.op = "deliver" /\ Tagged(last.m, last.c))
          => last.did = <<"resolve", "clearTimeout">>
    /\ \A c \in Calls : promise[c].state = "resolved" => timeout[c] = "cleared"

\* A matching response has just resolved a call whose timer was armed.
C19_Witness ==
    \E c \in Calls :
        /\ last.op = "deliver" /\ last.c = c /\ Tagged(last.m, c)
        /\ promise[c] = ResolvedWith(decode(last.m.content))
        /\ timeout[c] = "cleared"
        /\ \A d \in Calls \ {c} : promise[d].state # "resolved"

\* C15: every 'error' the channel emits is emitted by the broker exactly once.
C15_ChannelErrorEmittedOnce ==
    [][ChannelError => brokerErrors' = brokerErrors + 1]_vars

\* C12: the channel's ack is issued at most once for each delivered message,
\* however often the listener calls ack() on the payload.
C12_AckIssuedAtMostOnce ==
    \A p \in 1..Len(acked) : acked[p] <= 1

\* reply(d) is called on payload p.
Replying(p, d) == last'.op = "reply" /\ last'.c = p /\ Reply(p, d)

\* C13: each reply(data) on a payload sends exactly one message, to the replyTo of
\* the request the payload was built from and with that request's correlation id;
\* n calls send n messages and none goes to, or is tagged for, another request.
C13_ReplyGoesToItsRequest ==
    [][\A p \in 1..Len(payloads), d \in Values :
          Replying(p, d) =>
             outbox' = Append(outbox, [to |-> payloads[p].message.replyTo,
                                       correlationId |-> payloads[p].message.correlationId,
                                       content |-> <<"bytes", d>>])]_vars

\* Two payloads of different requests are held; the older one was replied to twice.
C13_Witness ==
    /\ Len(payloads) = 2
    /\ payloads[1].message.replyTo # payloads[2].message.replyTo
    /\ Len(outbox) = 2
    /\ \A i \in 1..2 : /\ outbox[i].to = payloads[1].message.replyTo
                       /\ outbox[i].correlationId = payloads[1].message.correlationId
    /\ last.op = "reply"

\* C14: a listener that throws stops nothing: every listener registered for the
\* event is notified of the message, and the failure is emitted on 'error'.
C14_ThrowingListenerIsolated ==
    \A p \in 1..Len(payloads) :
        /\ payloads[p].notified = payloads[p].registered
        /\ payloads[p].threw => brokerErrors >= 1

\* unsubscribe(g, evs) is invoked.
Unsubscribing(g, evs) ==
    /\ last'.op = "unsubscribe"
    /\ unsub'.group = g
    /\ unsub'.events = evs
    /\ Unsubscribe(g, evs)

\* C16: unsubscribe removes exactly the named events from the subscribed set and
\* leaves the listening flag, the consumers and what the channel can dispatch alone.
C16_UnsubscribeFrame ==
    [][\A g \in Groups, evs \in EventArrays :
          Unsubscribing(g, evs) =>
             /\ subscribedEvents' = subscribedEvents \ {evs[i] : i \in 1..Len(evs)}
             /\ listening' = listening
             /\ consumers' = consumers
             /\ \A q \in QueueNames : CanDispatch(q)' = CanDispatch(q)]_vars

\* One of two subscribed events was unsubscribed; the other stays subscribed and the
\* queue of the unsubscribed one is still consumed.
C16_Witness ==
    /\ last.op = "unsubscribe"
    /\ Len(unsub.events) = 1
    /\ subscribedEvents # {}
    /\ unsub.events[1] \notin subscribedEvents
    /\ listening
    /\ CanDispatch(QueueName(unsub.group, unsub.events[1]))

\* What destroy() leaves alone.
DestroyFrame ==
    Destroy => /\ promise' = promise
               /\ timeout' = timeout
               /\ subscribedEvents' = subscribedEvents

\* C20 as stated: destroy() leaves results, timers and the subscribed set alone,
\* and after it a pending call is settled only by its own timeout.
C20_PendingSettledOnlyByTimeout ==
    [][/\ DestroyFrame
       /\ \A c \in Calls :
             (~chanOpen /\ promise[c] = Pending /\ promise'[c] # Pending)
                => promise'[c] = RejectedWith(TimedOut)]_vars

\* C20 amended: destroy() leaves results, timers and the subscribed set alone, and
\* after it a pending call whose timer is armed is settled only by its own timeout.
C20_ArmedSettledOnlyByTimeout ==
    [][/\ DestroyFrame
       /\ \A c \in Calls :
             (~chanOpen /\ timeout[c] = "armed" /\ promise[c] = Pending /\ promise'[c] # Pending)
                => promise'[c] = RejectedWith(TimedOut)]_vars

\* A call pending at destroy() has timed out after it, with an event still subscribed.
C20_Witness ==
    /\ ~chanOpen
    /\ last.op = "timer"
    /\ promise[1] = RejectedWith(TimedOut)
    /\ replyConsumer[1] = "active"
    /\ subscribedEvents # {}
====
